---- MODULE Spec2Model ----
(***************************************************************************)
(* Model of the drone-buildah plugin (package docker, docker.go):          *)
(* Plugin.Exec prepares the storage configuration, optionally writes the   *)
(* auth file and logs in, injects the proxy build args, builds the list    *)
(* of buildah commands and runs them one after the other.                  *)
(*                                                                         *)
(* A Go string is a sequence of symbols.  Text the program inspects with   *)
(* strings.HasPrefix or strings.ToUpper (build-arg keys, build args) is    *)
(* spelt one character per symbol; a literal or an input that is only      *)
(* copied, concatenated or compared as a whole is one symbol.              *)
(***************************************************************************)
EXTENDS Integers, Sequences, FiniteSets, TLC

VARIABLES
    p,        \* the Plugin value Exec works on (receiver copy): Login, Build, Dryrun, Cleanup
    env,      \* the process environment (os.Getenv / os.Setenv)
    files,    \* paths written below /tmp/buildah-plugin
    now,      \* what time.Now().Format(time.RFC3339) yields
    pc,       \* position in Exec
    cmds,     \* the command list built by Exec, each entry is cmd.Args
    idx,      \* index of the next command of cmds to run
    ran,      \* history: every external command started so far, with its outcome
    stdout,   \* lines written to standard output (trace, Printf)
    result,   \* "running", "ok" (Exec returned nil) or "error"
    err,      \* the error Exec returned: its context and the command it names
    applied,  \* how often addProxyBuildArgs has been applied to p.Build
    out,      \* the last argument vector commandBuild produced on its own
    call      \* the last addProxyValue call made on its own: its key, build.Args before it

vars == <<p, env, files, now, pc, cmds, idx, ran, stdout, result, err, applied, out, call>>

(***************************************************************************)
(* Bounds of the model.                                                    *)
(***************************************************************************)
MaxCache == 2      \* longest cache-from list
MaxTags == 2       \* longest tag list
MaxArgs == 1       \* longest explicit build-arg list
MaxLabels == 1     \* longest explicit label list
MaxApply == 2      \* applications of addProxyBuildArgs in the argument harness
MaxCalls == 2      \* addProxyValue calls in a row in the key harness

(***************************************************************************)
(* Strings.                                                                *)
(***************************************************************************)
L(s) == <<s>>

EmptyStr == <<>>

\* unicode.ToUpper on the letters the model's keys are made of
UpperRune(c) ==
    CASE c = "a" -> "A" [] c = "b" -> "B" [] c = "h" -> "H" [] c = "n" -> "N"
      [] c = "o" -> "O" [] c = "p" -> "P" [] c = "r" -> "R" [] c = "s" -> "S"
      [] c = "t" -> "T" [] c = "x" -> "X" [] c = "y" -> "Y"
      [] OTHER -> c

ToUpper(s) == [i \in 1..Len(s) |-> UpperRune(s[i])]

HasPrefix(s, prefix) ==
    /\ Len(s) >= Len(prefix)
    /\ SubSeq(s, 1, Len(prefix)) = prefix

RECURSIVE Join(_, _)
Join(elems, sep) ==
    IF elems = <<>> THEN <<>>
    ELSE IF Len(elems) = 1 THEN elems[1]
    ELSE elems[1] \o sep \o Join(Tail(elems), sep)

\* fmt.Sprintf("%s=%s", k, v), fmt.Sprintf("%s:%s", a, b), fmt.Sprintf("%s.%s", a, b)
SprintfEq(k, v) == k \o L("=") \o v
SprintfColon(a, b) == a \o L(":") \o b
SprintfDot(a, b) == a \o L(".") \o b

\* all sequences over S of length at most n
SeqUpTo(S, n) == UNION {[1..k -> S] : k \in 0..n}

(***************************************************************************)
(* Literals of docker.go.                                                  *)
(***************************************************************************)
buildahExe == L("buildah")
tmpDir == L("/tmp/buildah-plugin")
storageConfPath == tmpDir \o L("/storage.conf")
authDir == tmpDir \o L("/auth")
authPath == authDir \o L("/auth.json")
labelPrefix == L("org.opencontainers.image")

http_proxy == <<"h", "t", "t", "p", "_", "p", "r", "o", "x", "y">>
https_proxy == <<"h", "t", "t", "p", "s", "_", "p", "r", "o", "x", "y">>
no_proxy == <<"n", "o", "_", "p", "r", "o", "x", "y">>

(***************************************************************************)
(* The environment.                                                        *)
(***************************************************************************)
Getenv(key) == IF key \in DOMAIN env THEN env[key] ELSE EmptyStr

Setenv(e, key, value) == [k \in DOMAIN e \cup {key} |-> IF k = key THEN value ELSE e[k]]

(***************************************************************************)
(* Proxy build args.                                                       *)
(***************************************************************************)
\* mutant: the upper-case variable is read before the exact-case one
getProxyValueUpperFirst(key) ==
    LET value == Getenv(ToUpper(key))
    IN IF Len(value) > 0 THEN value ELSE Getenv(key)

getProxyValue(key) ==
    LET value == Getenv(key)
    IN IF Len(value) > 0 THEN value ELSE Getenv(ToUpper(key))

\* mutant: compares the whole build arg with the key instead of its prefix
hasProxyBuildArgExact(build, key) ==
    LET keyUpper == ToUpper(key)
    IN \E i \in 1..Len(build.Args) :
          build.Args[i] = key \/ build.Args[i] = keyUpper

hasProxyBuildArg(build, key) ==
    LET keyUpper == ToUpper(key)
    IN \E i \in 1..Len(build.Args) :
          HasPrefix(build.Args[i], key) \/ HasPrefix(build.Args[i], keyUpper)

addProxyValue(build, key) ==
    LET value == getProxyValue(key)
    IN IF Len(value) > 0 /\ ~hasProxyBuildArg(build, key)
       THEN [build EXCEPT !.Args = @ \o <<SprintfEq(key, value), SprintfEq(ToUpper(key), value)>>]
       ELSE build

addProxyBuildArgs(build) ==
    addProxyValue(addProxyValue(addProxyValue(build, http_proxy), https_proxy), no_proxy)

(***************************************************************************)
(* Command constructors: each yields cmd.Args, program name first.         *)
(***************************************************************************)
commandLogin(login) ==
    <<buildahExe, L("--storage-driver"), L("vfs"), L("login"),
      L("-u"), login.Username, L("-p"), login.Password>>
    \o (IF login.Email # EmptyStr THEN <<L("-e"), login.Email>> ELSE <<>>)
    \o <<login.Registry>>

commandPull(repo) == <<buildahExe, L("--storage-driver"), L("vfs"), L("pull"), repo>>

commandVersion == <<buildahExe, L("--storage-driver"), L("vfs"), L("version")>>

commandInfo == <<buildahExe, L("--storage-driver"), L("vfs"), L("info")>>

commandTag(build, tag) ==
    LET source == build.Name
        target == SprintfColon(build.Repo, tag)
    IN <<buildahExe, L("--storage-driver"), L("vfs"), L("tag"), source, target>>

commandPush(build, tag) ==
    LET target == SprintfColon(build.Repo, tag)
    IN <<buildahExe, L("--storage-driver"), L("vfs"), L("push"), target>>

commandRmi(tag) == <<buildahExe, L("--storage-driver"), L("vfs"), L("rmi"), tag>>

\* for _, x := range list { args = append(args, flag, x) }
RECURSIVE Repeated(_, _)
Repeated(flag, list) ==
    IF list = <<>> THEN <<>>
    ELSE <<flag, Head(list)>> \o Repeated(flag, Tail(list))

\* for _, arg := range build.ArgsEnv { addProxyValue(&build, arg) }
RECURSIVE addArgsEnv(_, _)
addArgsEnv(build, keys) ==
    IF keys = <<>> THEN build
    ELSE addArgsEnv(addProxyValue(build, Head(keys)), Tail(keys))

When(cond, tokens) == IF cond THEN tokens ELSE <<>>

\* the four generated labels followed by the configured label-schema entries
autoLabels(build) ==
    << SprintfEq(L("created"), now),
       SprintfEq(L("revision"), build.Name),
       SprintfEq(L("source"), build.Remote),
       SprintfEq(L("url"), build.Link) >>
    \o When(Len(build.LabelSchema) > 0, build.LabelSchema)

\* mutant: the generated labels are emitted without the namespace
prefixedLabelsBare(labels) == labels

prefixedLabels(labels) == [i \in 1..Len(labels) |-> SprintfDot(labelPrefix, labels[i])]

s3Args(build) ==
    When(build.Layers,
         <<L("--layers=true")>>
         \o When(build.S3CacheDir # EmptyStr,
                 <<L("--s3-local-cache-dir"), build.S3CacheDir>>
                 \o When(build.S3Bucket # EmptyStr, <<L("--s3-bucket"), build.S3Bucket>>)
                 \o When(build.S3Endpoint # EmptyStr, <<L("--s3-endpoint"), build.S3Endpoint>>)
                 \o When(build.S3Region # EmptyStr, <<L("--s3-region"), build.S3Region>>)
                 \o When(build.S3Key # EmptyStr, <<L("--s3-key"), build.S3Key>>)
                 \o When(build.S3Secret # EmptyStr, <<L("--s3-secret"), build.S3Secret>>)
                 \o When(build.S3UseSSL, <<L("--s3-use-ssl=true")>>)))

\* args := []string{"--storage-driver", "vfs", "bud", "-f", build.Dockerfile}
buildHead(build) ==
    <<buildahExe, L("--storage-driver"), L("vfs"), L("bud"), L("-f"), build.Dockerfile>>

\* mutant: the context is appended before the name flag
buildTailContextFirst(build) == <<build.Context>> \o <<L("-t"), build.Name>>

\* args = append(args, "-t", build.Name); args = append(args, build.Context)
buildTail(build) == <<L("-t"), build.Name>> \o <<build.Context>>

commandBuild(build) ==
    LET withEnv == addArgsEnv(build, build.ArgsEnv)
    IN buildHead(build)
       \o When(build.Squash, <<L("--squash")>>)
       \o When(build.Compress, <<L("--compress")>>)
       \o When(build.Pull, <<L("--pull=true")>>)
       \o When(build.NoCache, <<L("--no-cache")>>)
       \o Repeated(L("--cache-from"), build.CacheFrom)
       \o Repeated(L("--build-arg"), withEnv.Args)
       \o Repeated(L("--add-host"), build.AddHost)
       \o When(build.Target # EmptyStr, <<L("--target"), build.Target>>)
       \o When(build.Quiet, <<L("--quiet")>>)
       \o s3Args(build)
       \o When(build.AutoLabel, Repeated(L("--label"), prefixedLabels(autoLabels(build))))
       \o When(Len(build.Labels) > 0, Repeated(L("--label"), build.Labels))
       \o buildTail(build)

(***************************************************************************)
(* The command list of Exec.                                               *)
(***************************************************************************)
\* mutant: the cache images are pulled last to first
RECURSIVE pullCommandsReversed(_)
pullCommandsReversed(cacheFrom) ==
    IF cacheFrom = <<>> THEN <<>>
    ELSE pullCommandsReversed(Tail(cacheFrom)) \o <<commandPull(Head(cacheFrom))>>

\* for _, img := range p.Build.CacheFrom { cmds = append(cmds, commandPull(img)) }
RECURSIVE pullCommands(_)
pullCommands(cacheFrom) ==
    IF cacheFrom = <<>> THEN <<>>
    ELSE <<commandPull(Head(cacheFrom))>> \o pullCommands(Tail(cacheFrom))

\* mutant: every tag command first, then every push command
RECURSIVE tagCommandsGrouped(_, _, _)
tagCommandsGrouped(build, tags, dryrun) ==
    IF tags = <<>> THEN <<>>
    ELSE <<commandTag(build, Head(tags))>>
         \o tagCommandsGrouped(build, Tail(tags), dryrun)
         \o When(~dryrun, <<commandPush(build, Head(tags))>>)

\* mutant: the push is appended whatever p.Dryrun says
RECURSIVE tagCommandsAlwaysPush(_, _, _)
tagCommandsAlwaysPush(build, tags, dryrun) ==
    IF tags = <<>> THEN <<>>
    ELSE <<commandTag(build, Head(tags)), commandPush(build, Head(tags))>>
         \o tagCommandsAlwaysPush(build, Tail(tags), dryrun)

\* for _, tag := range p.Build.Tags { tag; if !p.Dryrun { push } }
RECURSIVE tagCommands(_, _, _)
tagCommands(build, tags, dryrun) ==
    IF tags = <<>> THEN <<>>
    ELSE <<commandTag(build, Head(tags))>>
         \o When(~dryrun, <<commandPush(build, Head(tags))>>)
         \o tagCommands(build, Tail(tags), dryrun)

cleanupCommands(plugin) == When(plugin.Cleanup, <<commandRmi(plugin.Build.Name)>>)

commandList(plugin) ==
    <<commandVersion, commandInfo>>
    \o pullCommands(plugin.Build.CacheFrom)
    \o <<commandBuild(plugin.Build)>>
    \o tagCommands(plugin.Build, plugin.Build.Tags, plugin.Dryrun)
    \o cleanupCommands(plugin)

\* mutant: the login is decided on the auth config instead of the password
needsLoginOnConfig(login) == login.Config # EmptyStr

\* if p.Login.Password != "" { dockerLogin(p.Login) }
needsLogin(login) == login.Password # EmptyStr

\* mutant: only a failing build ends the run
abortsOnBuildOnly(cmd, ok) == ~ok /\ cmd[4] = L("bud")

\* err := cmd.Run(); if err != nil { return fmt.Errorf("command failed: ...") }
aborts(cmd, ok) == ~ok

(***************************************************************************)
(* Inputs.                                                                 *)
(***************************************************************************)
NoError == [context |-> "", cmd |-> <<>>]

NoCall == [n |-> 0, key |-> <<>>, args |-> <<>>]

Images == {L("cache/a"), L("cache/b")}
TagNames == {L("v1"), L("v2")}
Epoch == L("2024-01-01T00:00:00Z")
Timestamps == {Epoch, L("2024-06-30T12:00:00Z")}

Logins ==
    { login \in [ Registry : {L("registry.example")}, Username : {L("user")},
                  Password : {EmptyStr, L("secret")},
                  Email : {EmptyStr, L("me@example")},
                  Config : {EmptyStr, L("{auths}")} ] :
        login.Password = EmptyStr => login.Email = EmptyStr }

key_Ab == <<"A", "b">>

EnvNames == {http_proxy, ToUpper(http_proxy), ToUpper(no_proxy), key_Ab, ToUpper(key_Ab)}

\* every variable is unset or holds a value of its own
Environments ==
    { e \in [EnvNames -> {EmptyStr, L("1"), L("2")}] :
        /\ e[http_proxy] # L("2")
        /\ e[ToUpper(http_proxy)] # L("1")
        /\ e[ToUpper(no_proxy)] # L("2")
        /\ e[key_Ab] # L("2")
        /\ e[ToUpper(key_Ab)] # L("1") }

\* no proxy variable set, or http_proxy and HTTP_PROXY both set
FewEnvironments ==
    { e \in Environments :
        /\ e[ToUpper(no_proxy)] = EmptyStr
        /\ e[key_Ab] = EmptyStr
        /\ e[ToUpper(key_Ab)] = EmptyStr
        /\ (e[http_proxy] = EmptyStr) = (e[ToUpper(http_proxy)] = EmptyStr) }

ArgChoices ==
    { SprintfEq(http_proxy, L("9")),
      SprintfEq(ToUpper(no_proxy), L("9")),
      <<"A", "B", "C", "=", "9">> }

ArgsEnvChoices == {<<>>, <<key_Ab>>, <<no_proxy>>}

LabelChoices == {L("maintainer=me"), SprintfDot(labelPrefix, L("title=x"))}

PlainBuild ==
    [ Remote |-> L("https://git.example/repo.git"), Name |-> L("deadbeef"),
      Dockerfile |-> L("Dockerfile"), Context |-> L("."),
      Tags |-> <<>>, Args |-> <<>>, ArgsEnv |-> <<>>, Target |-> EmptyStr,
      Squash |-> FALSE, Pull |-> FALSE, CacheFrom |-> <<>>, Compress |-> FALSE,
      Repo |-> L("example/app"), LabelSchema |-> <<>>, AutoLabel |-> FALSE,
      Labels |-> <<>>, Link |-> L("https://git.example/repo"), NoCache |-> FALSE,
      AddHost |-> <<>>, Quiet |-> FALSE,
      S3CacheDir |-> EmptyStr, S3Bucket |-> EmptyStr, S3Endpoint |-> EmptyStr,
      S3Region |-> EmptyStr, S3Key |-> EmptyStr, S3Secret |-> EmptyStr,
      S3UseSSL |-> FALSE, Layers |-> FALSE ]

FullBuild ==
    [ PlainBuild EXCEPT
        !.Squash = TRUE, !.Pull = TRUE, !.Compress = TRUE, !.NoCache = TRUE,
        !.Quiet = TRUE, !.Target = L("release"), !.AddHost = <<L("db:10.0.0.1")>>,
        !.AutoLabel = TRUE, !.LabelSchema = <<L("version=1")>>,
        !.Labels = <<L("maintainer=me")>>, !.ArgsEnv = <<key_Ab>>,
        !.Layers = TRUE, !.S3CacheDir = L("/cache"), !.S3Bucket = L("bucket"),
        !.S3Endpoint = L("s3.example"), !.S3Region = L("eu"), !.S3Key = L("key"),
        !.S3Secret = L("s3secret"), !.S3UseSSL = TRUE ]

(***************************************************************************)
(* Exec, one action per step between two external effects.                 *)
(***************************************************************************)
Init ==
    /\ \E login \in Logins, base \in {PlainBuild, FullBuild},
          cache \in SeqUpTo(Images, MaxCache), tags \in SeqUpTo(TagNames, MaxTags),
          dry \in BOOLEAN, cleanup \in BOOLEAN :
          p = [ Login |-> login,
                Build |-> [base EXCEPT !.CacheFrom = cache, !.Tags = tags],
                Dryrun |-> dry, Cleanup |-> cleanup ]
    /\ env \in FewEnvironments
    /\ now = Epoch
    /\ files = {}
    /\ pc = "storage"
    /\ cmds = <<>>
    /\ idx = 1
    /\ ran = <<>>
    /\ stdout = <<>>
    /\ result = "running"
    /\ err = NoError
    /\ applied = 0
    /\ out = <<>>
    /\ call = NoCall

Return(context, cmd) ==
    /\ pc' = "done"
    /\ result' = IF context = "" THEN "ok" ELSE "error"
    /\ err' = [context |-> context, cmd |-> cmd]

\* os.Setenv STORAGE_DRIVER, MkdirAll(tmpDir), WriteFile(storage.conf), os.Setenv
PrepareStorage ==
    /\ pc = "storage"
    /\ \E failure \in {"", "error creating temporary directory", "error writing storage.conf"} :
          IF failure = ""
          THEN /\ env' = Setenv(Setenv(env, L("STORAGE_DRIVER"), L("vfs")),
                                L("CONTAINERS_STORAGE_CONF"), storageConfPath)
               /\ files' = files \cup {storageConfPath}
               /\ pc' = "auth"
               /\ UNCHANGED <<result, err>>
          ELSE /\ env' = Setenv(env, L("STORAGE_DRIVER"), L("vfs"))
               /\ files' = files
               /\ Return(failure, <<>>)
    /\ UNCHANGED <<p, now, cmds, idx, ran, stdout, applied, out, call>>

\* if p.Login.Config != "" { createAuthConfig(p.Login.Config, tmpDir) }
createAuthConfig ==
    /\ pc = "auth"
    /\ IF p.Login.Config = EmptyStr
       THEN /\ pc' = "login"
            /\ UNCHANGED <<env, files, stdout, result, err>>
       ELSE \E failure \in {"", "error creating auth directory", "error writing auth.json"} :
               IF failure = ""
               THEN /\ env' = Setenv(env, L("REGISTRY_AUTH_FILE"), authPath)
                    /\ files' = files \cup {authPath}
                    /\ stdout' = Append(stdout, L("Config written to ") \o authPath)
                    /\ pc' = "login"
                    /\ UNCHANGED <<result, err>>
               ELSE /\ Return(failure, <<>>)
                    /\ UNCHANGED <<env, files, stdout>>
    /\ UNCHANGED <<p, now, cmds, idx, ran, applied, out, call>>

\* if p.Login.Password != "" { dockerLogin(p.Login) }
dockerLogin ==
    /\ pc = "login"
    /\ IF ~needsLogin(p.Login)
       THEN /\ pc' = "build"
            /\ UNCHANGED <<ran, result, err>>
       ELSE \E ok \in BOOLEAN :
               /\ ran' = Append(ran, [args |-> commandLogin(p.Login), ok |-> ok])
               /\ IF ok
                  THEN pc' = "build" /\ UNCHANGED <<result, err>>
                  ELSE Return("error authenticating", commandLogin(p.Login))
    /\ UNCHANGED <<p, env, files, now, cmds, idx, stdout, applied, out, call>>

\* addProxyBuildArgs(&p.Build), then the appends to cmds
BuildCommands ==
    /\ pc = "build"
    /\ p' = [p EXCEPT !.Build = addProxyBuildArgs(@)]
    /\ applied' = applied + 1
    /\ cmds' = commandList([p EXCEPT !.Build = addProxyBuildArgs(@)])
    /\ idx' = 1
    /\ pc' = "run"
    /\ UNCHANGED <<env, files, now, ran, stdout, result, err, out, call>>

\* one iteration of "for _, cmd := range cmds": trace(cmd), cmd.Run()
RunCommand ==
    /\ pc = "run"
    /\ idx \in 1..Len(cmds)
    /\ stdout' = Append(stdout, L("+ ") \o Join(cmds[idx], L(" ")))
    /\ \E ok \in BOOLEAN :
          /\ ran' = Append(ran, [args |-> cmds[idx], ok |-> ok])
          /\ IF aborts(cmds[idx], ok)
             THEN Return("command failed", cmds[idx]) /\ idx' = idx
             ELSE IF idx = Len(cmds)
                  THEN Return("", <<>>) /\ idx' = idx + 1
                  ELSE /\ idx' = idx + 1
                       /\ UNCHANGED <<pc, result, err>>
    /\ UNCHANGED <<p, env, files, now, cmds, applied, out, call>>

Next ==
    \/ PrepareStorage
    \/ createAuthConfig
    \/ dockerLogin
    \/ BuildCommands
    \/ RunCommand

Spec == Init /\ [][Next]_vars

(***************************************************************************)
(* The argument builder on its own: addProxyBuildArgs and commandBuild     *)
(* applied to a Build drawn from the configurations below.                 *)
(***************************************************************************)
FlagNames == {"Squash", "Compress", "Pull", "NoCache", "Quiet"}

\* the layer-cache settings: off, layers only, local cache dir only, everything
LayerSettings ==
    { [Layers |-> FALSE, Dir |-> EmptyStr, Rest |-> FALSE],
      [Layers |-> TRUE, Dir |-> EmptyStr, Rest |-> TRUE],
      [Layers |-> TRUE, Dir |-> L("/cache"), Rest |-> FALSE],
      [Layers |-> TRUE, Dir |-> L("/cache"), Rest |-> TRUE] }

ShapedBuild(flags, layer, auto, schema, labels, target, hosts, cache) ==
    [ PlainBuild EXCEPT
        !.Squash = "Squash" \in flags, !.Compress = "Compress" \in flags,
        !.Pull = "Pull" \in flags, !.NoCache = "NoCache" \in flags,
        !.Quiet = "Quiet" \in flags,
        !.Layers = layer.Layers, !.S3CacheDir = layer.Dir,
        !.S3Bucket = IF layer.Rest THEN L("bucket") ELSE EmptyStr,
        !.S3Endpoint = IF layer.Rest THEN L("s3.example") ELSE EmptyStr,
        !.S3Region = IF layer.Rest THEN L("eu") ELSE EmptyStr,
        !.S3Key = IF layer.Rest THEN L("key") ELSE EmptyStr,
        !.S3Secret = IF layer.Rest THEN L("s3secret") ELSE EmptyStr,
        !.S3UseSSL = layer.Rest,
        !.AutoLabel = auto, !.LabelSchema = schema, !.Labels = labels,
        !.Target = target, !.AddHost = hosts, !.CacheFrom = cache ]

\* every shape of the argument list, with one proxy variable set
ShapeInputs ==
    { [build |-> ShapedBuild(flags, layer, auto, schema, labels, target, hosts, cache),
       env |-> [n \in EnvNames |-> IF n = http_proxy THEN L("1") ELSE EmptyStr],
       now |-> t] :
        flags \in SUBSET FlagNames, layer \in LayerSettings, auto \in BOOLEAN,
        schema \in SeqUpTo({L("version=1")}, 1),
        labels \in SeqUpTo(LabelChoices, MaxLabels),
        target \in {EmptyStr, L("release")},
        hosts \in SeqUpTo({L("db:10.0.0.1")}, 1),
        cache \in SeqUpTo({L("cache/a")}, 1),
        t \in Timestamps }

\* every environment and build-arg list, on the two base builds
ProxyInputs ==
    { [build |-> [base EXCEPT !.Args = args, !.ArgsEnv = argsEnv],
       env |-> e, now |-> Epoch] :
        base \in {PlainBuild, FullBuild}, args \in SeqUpTo(ArgChoices, MaxArgs),
        argsEnv \in ArgsEnvChoices, e \in Environments }

InitArgs ==
    /\ \E input \in ShapeInputs \cup ProxyInputs :
          /\ p = [ Login |-> CHOOSE l \in Logins : l.Password = EmptyStr /\ l.Config = EmptyStr,
                   Build |-> input.build, Dryrun |-> FALSE, Cleanup |-> FALSE ]
          /\ env = input.env
          /\ now = input.now
    /\ files = {}
    /\ pc = "args"
    /\ cmds = <<>>
    /\ idx = 1
    /\ ran = <<>>
    /\ stdout = <<>>
    /\ result = "running"
    /\ err = NoError
    /\ applied = 0
    /\ out = <<>>
    /\ call = NoCall

ApplyProxyBuildArgs ==
    /\ pc = "args"
    /\ applied < MaxApply
    /\ p' = [p EXCEPT !.Build = addProxyBuildArgs(@)]
    /\ applied' = applied + 1
    /\ UNCHANGED <<env, files, now, pc, cmds, idx, ran, stdout, result, err, out, call>>

ApplyCommandBuild ==
    /\ pc = "args"
    /\ out' = commandBuild(p.Build)
    /\ UNCHANGED <<p, env, files, now, pc, cmds, idx, ran, stdout, result, err, applied, call>>

NextArgs ==
    \/ ApplyProxyBuildArgs
    \/ ApplyCommandBuild

SpecArgs == InitArgs /\ [][NextArgs]_vars

(***************************************************************************)
(* addProxyValue on its own: one call per step, for the keys Exec and      *)
(* commandBuild hand to it (the three proxy keys, the entries of ArgsEnv). *)
(***************************************************************************)
\* build args a caller may already have set, in several spellings of the keys
KeyArgChoices == ArgChoices \cup {<<"a", "b", "=", "9">>, <<"H", "t", "t", "p", "_", "p", "r", "o", "x", "y", "=", "9">>}

ProcessedKeys(build) ==
    {http_proxy, https_proxy, no_proxy} \cup {build.ArgsEnv[i] : i \in 1..Len(build.ArgsEnv)}

InitKey ==
    /\ \E args \in SeqUpTo(KeyArgChoices, MaxArgs), argsEnv \in ArgsEnvChoices :
          p = [ Login |-> CHOOSE l \in Logins : l.Password = EmptyStr /\ l.Config = EmptyStr,
                Build |-> [PlainBuild EXCEPT !.Args = args, !.ArgsEnv = argsEnv],
                Dryrun |-> FALSE, Cleanup |-> FALSE ]
    /\ env \in Environments
    /\ now = Epoch
    /\ files = {}
    /\ pc = "key"
    /\ cmds = <<>>
    /\ idx = 1
    /\ ran = <<>>
    /\ stdout = <<>>
    /\ result = "running"
    /\ err = NoError
    /\ applied = 0
    /\ out = <<>>
    /\ call = NoCall

ApplyProxyValue ==
    /\ pc = "key"
    /\ call.n < MaxCalls
    /\ \E key \in ProcessedKeys(p.Build) :
          /\ p' = [p EXCEPT !.Build = addProxyValue(@, key)]
          /\ call' = [n |-> call.n + 1, key |-> key, args |-> p.Build.Args]
    /\ UNCHANGED <<env, files, now, pc, cmds, idx, ran, stdout, result, err, applied, out>>

NextKey == ApplyProxyValue

SpecKey == InitKey /\ [][NextKey]_vars

(***************************************************************************)
(* Vocabulary of the properties.                                           *)
(***************************************************************************)
IsCmd(args, sub) ==
    /\ Len(args) >= 4
    /\ args[1] = L("buildah")
    /\ args[2] = L("--storage-driver")
    /\ args[3] = L("vfs")
    /\ args[4] = L(sub)

IsPull(args, img) == IsCmd(args, "pull") /\ Len(args) = 5 /\ args[5] = img

IsTag(args, tag) ==
    /\ IsCmd(args, "tag")
    /\ Len(args) = 6
    /\ args[5] = p.Build.Name
    /\ args[6] = p.Build.Repo \o L(":") \o tag

IsPush(args, tag) ==
    /\ IsCmd(args, "push")
    /\ Len(args) = 5
    /\ args[5] = p.Build.Repo \o L(":") \o tag

IsRmi(args) == IsCmd(args, "rmi") /\ Len(args) = 5 /\ args[5] = p.Build.Name

\* the commands of the sequence that were started, the login left out
Steps == IF ran # <<>> /\ IsCmd(ran[1].args, "login") THEN Tail(ran) ELSE ran

NumCache == Len(p.Build.CacheFrom)
NumTags == Len(p.Build.Tags)
BuildAt == NumCache + 3
Built == pc \in {"run", "done"} /\ cmds # <<>>

(***************************************************************************)
(* C1: a failing cache pull does not end the run, a failing build does.    *)
(* Stated as the claim has it: after a pull that failed the run has not    *)
(* stopped with an error at that pull, and a build that failed is the last *)
(* command started and Exec has returned an error.                         *)
(***************************************************************************)
C1_PullFailureTolerated ==
    \A i \in 1..Len(ran) :
        /\ (IsCmd(ran[i].args, "pull") /\ ~ran[i].ok)
              => ~(result = "error" /\ i = Len(ran))
        /\ (IsCmd(ran[i].args, "bud") /\ ~ran[i].ok)
              => (result = "error" /\ i = Len(ran))

(***************************************************************************)
(* C2: with Dryrun false the commands started after the build are          *)
(* tag(t1), push(t1), ..., tag(tn), push(tn) in the order of the tag list, *)
(* each push right after its tag, none of them before the build; a run     *)
(* that succeeds has started all of them (then only the optional removal). *)
(***************************************************************************)
C2_TagThenPushPerTag ==
    (Built /\ ~p.Dryrun) =>
        /\ \A i \in 1..Len(Steps) :
              (IsCmd(Steps[i].args, "tag") \/ IsCmd(Steps[i].args, "push"))
                 => (i > BuildAt /\ i <= BuildAt + 2 * NumTags)
        /\ \A k \in 1..NumTags :
              /\ BuildAt + 2 * k - 1 <= Len(Steps)
                    => IsTag(Steps[BuildAt + 2 * k - 1].args, p.Build.Tags[k])
              /\ BuildAt + 2 * k <= Len(Steps)
                    => IsPush(Steps[BuildAt + 2 * k].args, p.Build.Tags[k])
        /\ result = "ok"
              => Len(Steps) = BuildAt + 2 * NumTags + (IF p.Cleanup THEN 1 ELSE 0)

C2_Witness ==
    /\ result = "ok"
    /\ ~p.Dryrun
    /\ NumTags = 2
    /\ p.Build.Tags[1] # p.Build.Tags[2]
    /\ IsPush(Steps[BuildAt + 4].args, p.Build.Tags[2])

(***************************************************************************)
(* C3: the command list starts with version, info, then one pull per       *)
(* cache-from entry in the order supplied, then the one build command; no  *)
(* pull comes after the build, and the commands are started in list order. *)
(***************************************************************************)
C3_PullsBeforeBuild ==
    Built =>
        /\ Len(cmds) >= BuildAt
        /\ IsCmd(cmds[1], "version") /\ Len(cmds[1]) = 4
        /\ IsCmd(cmds[2], "info") /\ Len(cmds[2]) = 4
        /\ \A i \in 1..NumCache : IsPull(cmds[2 + i], p.Build.CacheFrom[i])
        /\ \A j \in 1..Len(cmds) :
              /\ IsCmd(cmds[j], "bud") <=> j = BuildAt
              /\ IsCmd(cmds[j], "pull") => j \in 3..(BuildAt - 1)
        /\ Len(Steps) <= Len(cmds)
        /\ \A i \in 1..Len(Steps) : Steps[i].args = cmds[i]

C3_Witness ==
    /\ NumCache = 2
    /\ p.Build.CacheFrom[1] # p.Build.CacheFrom[2]
    /\ Len(Steps) > BuildAt
    /\ IsPull(Steps[3].args, p.Build.CacheFrom[1])
    /\ IsPull(Steps[4].args, p.Build.CacheFrom[2])

(***************************************************************************)
(* C4: when version, info, build, tag or push fails, it is the last        *)
(* command ever started, Exec has returned, and the error it returned is   *)
(* the one of that command.                                                *)
(***************************************************************************)
FatalKinds == {"version", "info", "bud", "tag", "push"}

C4_FatalFailureAborts ==
    \A i \in 1..Len(ran) :
        ((\E k \in FatalKinds : IsCmd(ran[i].args, k)) /\ ~ran[i].ok)
           => /\ i = Len(ran)
              /\ pc = "done"
              /\ result = "error"
              /\ err.context = "command failed"
              /\ err.cmd = ran[i].args

C4_Witness ==
    /\ p.Cleanup
    /\ NumTags = 2
    /\ ~p.Dryrun
    /\ Len(Steps) = BuildAt + 3
    /\ IsTag(Steps[BuildAt + 3].args, p.Build.Tags[2])
    /\ ~Steps[BuildAt + 3].ok
    /\ result = "error"

(***************************************************************************)
(* C5: with Cleanup set, the list ends with its only rmi command (for the  *)
(* build name); an rmi that fails leaves Exec returning success; without   *)
(* Cleanup no rmi is started.                                              *)
(***************************************************************************)
C5_CleanupLastAndTolerated ==
    /\ (Built /\ p.Cleanup) =>
          \A j \in 1..Len(cmds) : IsCmd(cmds[j], "rmi") <=> j = Len(cmds)
    /\ (Built /\ p.Cleanup) => IsRmi(cmds[Len(cmds)])
    /\ \A i \in 1..Len(ran) :
          (IsCmd(ran[i].args, "rmi") /\ ~ran[i].ok) => result = "ok"
    /\ ~p.Cleanup => \A i \in 1..Len(ran) : ~IsCmd(ran[i].args, "rmi")

(***************************************************************************)
(* C6: addProxyBuildArgs is idempotent: an application that follows an     *)
(* earlier one in the same environment leaves build.Args as it was.        *)
(***************************************************************************)
C6_ProxyInjectionIdempotent ==
    [][(pc = "args" /\ applied >= 1 /\ applied' = applied + 1)
          => p'.Build.Args = p.Build.Args]_vars

C6_Witness ==
    /\ pc = "args"
    /\ applied = 2
    /\ \E i \in 1..Len(p.Build.Args) : p.Build.Args[i] = SprintfEq(http_proxy, L("1"))
    /\ \E i \in 1..Len(p.Build.Args) : p.Build.Args[i] = SprintfEq(ToUpper(no_proxy), L("1"))

(***************************************************************************)
(* C7: in the argument list of commandBuild "-f" and the Dockerfile path   *)
(* directly follow the subcommand token "bud", and the list ends with      *)
(* "-t", the build name and the context path.                              *)
(***************************************************************************)
C7_DockerfileFirstContextLast ==
    (pc = "args" /\ out # <<>>) =>
        LET n == Len(out)
        IN /\ n >= 9
           /\ \A i \in 1..n : out[i] = L("bud") <=> i = 4
           /\ out[5] = L("-f")
           /\ out[6] = p.Build.Dockerfile
           /\ out[n - 2] = L("-t")
           /\ out[n - 1] = p.Build.Name
           /\ out[n] = p.Build.Context

C7_Witness ==
    /\ pc = "args"
    /\ out # <<>>
    /\ Len(out) > 30
    /\ out[Len(out)] = L(".")

(***************************************************************************)
(* C8: with AutoLabel set the --label flags carry the four generated       *)
(* labels (created, revision, source, url) and then the label-schema       *)
(* entries, every one behind "org.opencontainers.image."; the explicit     *)
(* labels follow, one --label each, as configured, AutoLabel set or not.   *)
(***************************************************************************)
RECURSIVE LabelValues(_)
LabelValues(args) ==
    IF Len(args) < 2 THEN <<>>
    ELSE IF args[1] = L("--label")
         THEN <<args[2]>> \o LabelValues(SubSeq(args, 3, Len(args)))
         ELSE LabelValues(Tail(args))

Namespace == <<"org.opencontainers.image", ".">>

C8_AutoLabels ==
    (pc = "args" /\ out # <<>>) =>
        LET vals == LabelValues(out)
            schema == p.Build.LabelSchema
            auto == IF p.Build.AutoLabel THEN 4 + Len(schema) ELSE 0
        IN /\ Len(vals) = auto + Len(p.Build.Labels)
           /\ p.Build.AutoLabel =>
                 /\ vals[1] = Namespace \o <<"created", "=">> \o now
                 /\ vals[2] = Namespace \o <<"revision", "=">> \o p.Build.Name
                 /\ vals[3] = Namespace \o <<"source", "=">> \o p.Build.Remote
                 /\ vals[4] = Namespace \o <<"url", "=">> \o p.Build.Link
                 /\ \A j \in 1..Len(schema) : vals[4 + j] = Namespace \o schema[j]
           /\ \A j \in 1..Len(p.Build.Labels) : vals[auto + j] = p.Build.Labels[j]

C8_Witness ==
    /\ pc = "args"
    /\ out # <<>>
    /\ p.Build.AutoLabel
    /\ Len(p.Build.LabelSchema) = 1
    /\ Len(p.Build.Labels) >= 1
    /\ Len(LabelValues(out)) = 5 + Len(p.Build.Labels)

(***************************************************************************)
(* C9: with a password the first command started is the login (user,       *)
(* password, email if any, registry) and no other login follows; a login   *)
(* that fails is the only command ever started and Exec returns the        *)
(* authentication error; without a password no login is started and Exec   *)
(* never returns the authentication error.                                 *)
(***************************************************************************)
IsLoginOf(args, login) ==
    args = <<L("buildah"), L("--storage-driver"), L("vfs"), L("login"),
             L("-u"), login.Username, L("-p"), login.Password>>
           \o (IF login.Email = EmptyStr THEN <<>> ELSE <<L("-e"), login.Email>>)
           \o <<login.Registry>>

C9_LoginFirstAndFatal ==
    /\ (p.Login.Password # EmptyStr /\ ran # <<>>) =>
          /\ IsLoginOf(ran[1].args, p.Login)
          /\ \A i \in 2..Len(ran) : ~IsCmd(ran[i].args, "login")
    /\ (p.Login.Password # EmptyStr /\ pc \in {"build", "run"}) =>
          (ran # <<>> /\ ran[1].ok)
    /\ (ran # <<>> /\ IsCmd(ran[1].args, "login") /\ ~ran[1].ok) =>
          /\ Len(ran) = 1
          /\ pc = "done"
          /\ result = "error"
          /\ err.context = "error authenticating"
    /\ p.Login.Password = EmptyStr =>
          /\ \A i \in 1..Len(ran) : ~IsCmd(ran[i].args, "login")
          /\ err.context # "error authenticating"

C9_Witness ==
    /\ p.Login.Password # EmptyStr
    /\ p.Login.Email # EmptyStr
    /\ Len(ran) >= 4
    /\ ran[1].ok
    /\ IsCmd(ran[2].args, "version")

(***************************************************************************)
(* C10: with Dryrun set no push is ever started; the commands started      *)
(* after the build are tag(t1), ..., tag(tn) in the order of the tag list, *)
(* then only the removal (if Cleanup is set).                              *)
(***************************************************************************)
C10_DryrunNeverPushes ==
    p.Dryrun =>
        /\ \A i \in 1..Len(ran) : ~IsCmd(ran[i].args, "push")
        /\ \A j \in 1..Len(cmds) : ~IsCmd(cmds[j], "push")
        /\ \A i \in 1..Len(Steps) :
              /\ IsCmd(Steps[i].args, "tag") <=> (i > BuildAt /\ i <= BuildAt + NumTags)
              /\ (i > BuildAt /\ i <= BuildAt + NumTags)
                    => IsTag(Steps[i].args, p.Build.Tags[i - BuildAt])
              /\ i > BuildAt + NumTags
                    => (p.Cleanup /\ i = BuildAt + NumTags + 1 /\ IsRmi(Steps[i].args))
        /\ result = "ok"
              => Len(Steps) = BuildAt + NumTags + (IF p.Cleanup THEN 1 ELSE 0)

C10_Witness ==
    /\ p.Dryrun
    /\ p.Cleanup
    /\ result = "ok"
    /\ NumTags = 2
    /\ p.Build.Tags[1] # p.Build.Tags[2]
    /\ IsTag(Steps[BuildAt + 2].args, p.Build.Tags[2])

(***************************************************************************)
(* C11: what one addProxyValue call does to build.Args.                    *)
(***************************************************************************)
LowerRune(c) ==
    CASE c = "A" -> "a" [] c = "B" -> "b" [] c = "H" -> "h" [] c = "N" -> "n"
      [] c = "O" -> "o" [] c = "P" -> "p" [] c = "R" -> "r" [] c = "S" -> "s"
      [] c = "T" -> "t" [] c = "X" -> "x" [] c = "Y" -> "y"
      [] OTHER -> c

ToLower(s) == [i \in 1..Len(s) |-> LowerRune(s[i])]

\* s starts with prefix when the case of the letters is ignored
HasPrefixFold(s, prefix) ==
    /\ Len(s) >= Len(prefix)
    /\ ToLower(SubSeq(s, 1, Len(prefix))) = ToLower(prefix)

Called == pc = "key" /\ call.n > 0

(***************************************************************************)
(* C11 as claimed: the call appends exactly when the value is non-empty    *)
(* and no build arg has the key as a prefix whatever the case of its       *)
(* letters, and it appends the lower-case pair, then the upper-case pair.  *)
(***************************************************************************)
C11_AsClaimed ==
    Called =>
        LET key == call.key
            value == IF Getenv(key) # EmptyStr THEN Getenv(key) ELSE Getenv(ToUpper(key))
            free == \A i \in 1..Len(call.args) : ~HasPrefixFold(call.args[i], key)
        IN p.Build.Args =
              IF value # EmptyStr /\ free
              THEN call.args \o << ToLower(key) \o L("=") \o value,
                                   ToUpper(key) \o L("=") \o value >>
              ELSE call.args

(***************************************************************************)
(* C11 as amended: the call appends exactly when the value (variable named *)
(* as the key first, then its upper-case name) is non-empty and no build   *)
(* arg starts with the key as given or with the key in upper case; it then *)
(* appends two entries, key=value with the key as given, then the          *)
(* upper-case key=value; otherwise it leaves build.Args as it was.         *)
(***************************************************************************)
C11_AppendsKeyAsGivenThenUpper ==
    Called =>
        LET key == call.key
            value == IF Getenv(key) # EmptyStr THEN Getenv(key) ELSE Getenv(ToUpper(key))
            free == \A i \in 1..Len(call.args) :
                       /\ ~HasPrefix(call.args[i], key)
                       /\ ~HasPrefix(call.args[i], ToUpper(key))
        IN p.Build.Args =
              IF value # EmptyStr /\ free
              THEN call.args \o << key \o L("=") \o value,
                                   ToUpper(key) \o L("=") \o value >>
              ELSE call.args

C11_Witness ==
    /\ Called
    /\ call.key = key_Ab
    /\ env[key_Ab] = L("1")
    /\ env[ToUpper(key_Ab)] = L("2")
    /\ call.args = << <<"a", "b", "=", "9">> >>
    /\ p.Build.Args = << <<"a", "b", "=", "9">>, <<"A", "b", "=", "1">>, <<"A", "B", "=", "1">> >>

====
